---------------------------- MODULE Spec2Model ----------------------------
(***************************************************************************)
(* Lava transport on a height field (tomandavid/Eruptor).                  *)
(*                                                                         *)
(* Three parts of the program are modelled:                                *)
(*   - the primary engine (src/src/systems/LavaSystem.ts, injectLavaUV and *)
(*     simulateLava), an N x N grid of 8-bit thickness values;             *)
(*   - the thermal engine (RealisticLavaSimulator in the same file), an    *)
(*     N x N grid of cells with thickness, temperature, velocity, ...;     *)
(*   - the host (src/src/components/Viewport.tsx and the pointer handlers  *)
(*     of attachClickSpawner), which drives the primary engine each frame. *)
(*                                                                         *)
(* Numbers that the code keeps in binary floating point are kept here in   *)
(* fixed point; quotients are rounded down unless a definition says more.  *)
(* Primary engine:                                                         *)
(*   - a thickness or ground height h is the integer h * 255 * Sub, i.e.   *)
(*     one 8-bit quantum is Sub units;                                     *)
(*   - dt and step are in 1/TimeDen seconds, flowRate in 1/RateDen,        *)
(*     cooling in 1/CoolDen, viscosity in 1/ViscDen;                       *)
(*   - u and v are in 1/UVDen, the radius fraction in 1/RadiusDen and the  *)
(*     injection amount in 1/AmountDen.                                    *)
(* Thermal engine:                                                         *)
(*   - thickness and elevation in 1/MilliDen metres, temperature in        *)
(*     1/TempDen degrees C, velocity in 1/VelDen m/s, a slope in           *)
(*     1/SlopeDen, viscosity in ViscUnit Pa s, dt in 1/TimeDen seconds,    *)
(*     crust in 1/MilliDen, age in 1/TimeDen seconds.                      *)
(***************************************************************************)
EXTENDS Integers, Sequences, FiniteSets, TLC

VARIABLES
  lava,                    \* LavaSystem.lava: cell index -> 0..255
  ground,                  \* LavaSystem.ground: cell index -> height (units)
  paused,                  \* LavaSystem.paused
  holding,                 \* LavaSystem.holding
  continuousPoint,         \* LavaSystem.continuousPoint: NoPoint or the uv of the hit
  persistentVentsEnabled,  \* LavaSystem.persistentVentsEnabled
  persistentVents,         \* LavaSystem.persistentVents: sequence of <<u, v>>
  config,                  \* App's config state: the lava parameters the sidebar sets
  lavaField,               \* RealisticLavaSimulator.lavaField: cell index -> LavaCell
  terrainMods,             \* RealisticLavaSimulator.terrainMods: cell index -> TerrainModification
  heightData,              \* RealisticLavaSimulator.heightData: index -> height
  originalHeightData,      \* RealisticLavaSimulator.originalHeightData
  calls,                   \* history: the engine calls of the last operation, in order
  op,                      \* history: the operation that produced this state
  pre,                     \* history: the grid (lava or lavaField) before that operation
  arg,                     \* history: the arguments of that operation (and, for simulate, the terrain it started from)
  steps                    \* history: operations done so far

primaryVars == <<lava, ground>>
hostVars == <<paused, holding, continuousPoint, persistentVentsEnabled, persistentVents, config>>
thermalVars == <<lavaField, terrainMods, heightData, originalHeightData>>
histVars == <<calls, op, pre, arg, steps>>
vars == <<lava, ground, paused, holding, continuousPoint, persistentVentsEnabled,
          persistentVents, config, lavaField, terrainMods, heightData, originalHeightData,
          calls, op, pre, arg, steps>>

---------------------------------------------------------------------------
(* Bounds of the model. *)

N == 4               \* flowN, the side of both grids
ResN == 2            \* the side of the height map (sqrt(heightData.length))
MaxInjects == 3      \* injections per behaviour of InjSpec
MaxTicks == 2        \* ticks per behaviour of SimSpec
MaxThermalSteps == 4 \* operations per behaviour of ThermalSpec
MaxHostSteps == 4    \* events per behaviour of Spec
MaxNegativeTicks == 1  \* ticks with a negative mobility per behaviour of CoolSpec
MaxFlowTicks == 1    \* ticks per behaviour of FlowSpec
MaxVents == 2        \* vents the host places per behaviour
GroundStep == 40     \* height difference (units) between neighbouring cells of a sloped ground
TerrainStep == 6000  \* height difference (1/MilliDen m) between height-map samples

(* Fixed-point denominators. *)
Sub == 16
TimeDen == 100
RateDen == 100
CoolDen == 1000
ViscDen == 1000
UVDen == 4
RadiusDen == 1000
AmountDen == 2
MilliDen == 1000
TempDen == 10
VelDen == 10000
SlopeDen == 2000
ViscUnit == 1000

(* 1/sqrt(2), the weight of a diagonal neighbour. *)
DiagNum == 7071
DiagDen == 10000

Cells == 0 .. (N * N - 1)
Coord == 0 .. (N - 1)

(* A typed array holds values: every entry of f is computed once. *)
Table(f) == f @@ <<>>

Max(a, b) == IF a >= b THEN a ELSE b
Min(a, b) == IF a <= b THEN a ELSE b
Abs(a) == IF a >= 0 THEN a ELSE -a

---------------------------------------------------------------------------
(* injectLavaUV *)

clamp01(x) == Min(UVDen, Max(0, x))

(* A store into a Uint8Array keeps the value modulo 2^8. *)
ToUint8(x) == x % 256

InjectRadius(radius) == Max(2, (N * radius) \div RadiusDen)

(* InjectCx without clamp01. *)
InjectCxUnclamped(u) == (u * (N - 1)) \div UVDen

InjectCx(u) == (clamp01(u) * (N - 1)) \div UVDen

InjectCy(v) == (clamp01(UVDen - v) * (N - 1)) \div UVDen

InjectAdd(amount) == amount \div AmountDen

(* floor(add * k) with k = 1 - (x*x + y*y) / (R*R) *)
InjectAddend(add, x, y, R) == (add * (R * R - (x * x + y * y))) \div (R * R)

(* InjectTouches without the test d > 1: the whole square window. *)
InjectTouchesSquare(cx, cy, R, idx) ==
  LET x == (idx % N) - cx
      y == (idx \div N) - cy
  IN  x >= -R /\ x <= R /\ y >= -R /\ y <= R

InjectTouches(cx, cy, R, idx) ==
  LET x == (idx % N) - cx
      y == (idx \div N) - cy
  IN  /\ x >= -R /\ x <= R /\ y >= -R /\ y <= R
      /\ x * x + y * y <= R * R

InjectCell(old, add, x, y, R) == ToUint8(Min(255, old + InjectAddend(add, x, y, R)))

injectLavaUV(g, u, v, amount, radius) ==
  LET R == InjectRadius(radius)
      cx == InjectCx(u)
      cy == InjectCy(v)
      add == InjectAdd(amount)
  IN  [idx \in Cells |->
         IF InjectTouches(cx, cy, R, idx)
         THEN InjectCell(g[idx], add, (idx % N) - cx, (idx \div N) - cy, R)
         ELSE g[idx]]

---------------------------------------------------------------------------
(* simulateLava *)

SlopeEps == 0   \* 1e-6, less than one unit
ViscEps == 0    \* 1e-6, less than 1/ViscDen
MaxStep == 10   \* 0.1 s

(* The eight neighbour offsets <<dx, dy, diagonal>> in the order of the code. *)
NbrOffsets ==
  << <<-1, 0, FALSE>>, <<1, 0, FALSE>>, <<0, -1, FALSE>>, <<0, 1, FALSE>>,
     <<-1, -1, TRUE>>, <<1, -1, TRUE>>, <<-1, 1, TRUE>>, <<1, 1, TRUE>> >>

InGrid(x, y) == x >= 0 /\ x <= N - 1 /\ y >= 0 /\ y <= N - 1

(* DropOf with Math.abs in the place of Math.max(0.0, ...). *)
DropAbs(d, diag) == IF diag THEN (Abs(d) * DiagNum) \div DiagDen ELSE Abs(d)

(* Math.max(0.0, hi - H(j)) for an orthogonal neighbour, Math.max(0.0, (hi - H(j)) * diagK) for a diagonal one. *)
DropOf(d, diag) == IF diag THEN Max(0, (d * DiagNum) \div DiagDen) ELSE Max(0, d)

(* The neighbour of cell i at offset k, or -1 when it is outside the grid. *)
NbrAt(i, k) ==
  LET x == (i % N) + NbrOffsets[k][1]
      y == (i \div N) + NbrOffsets[k][2]
  IN  IF InGrid(x, y) THEN y * N + x ELSE -1

(* Drops with H(j) taken as ground[j] alone. *)
DropsToBareGround(temp, gr) ==
  [i \in Cells |->
     [k \in 1..8 |->
        IF NbrAt(i, k) = -1 THEN 0
        ELSE DropOf((gr[i] + temp[i]) - gr[NbrAt(i, k)], NbrOffsets[k][3])]]

(* nbrs of every cell: offset k -> the drop towards that neighbour (0 outside the grid). *)
Drops(temp, gr) ==
  [i \in Cells |->
     [k \in 1..8 |->
        IF NbrAt(i, k) = -1 THEN 0
        ELSE DropOf((gr[i] + temp[i]) - (gr[NbrAt(i, k)] + temp[NbrAt(i, k)]), NbrOffsets[k][3])]]

SlopeSum(w) == w[1] + w[2] + w[3] + w[4] + w[5] + w[6] + w[7] + w[8]

Flows(slopeSum, avail) == slopeSum > SlopeEps /\ avail > 0

Capacity(flowRate, step, slopeSum) == (flowRate * step * slopeSum) \div (RateDen * TimeDen)

(* moved, 0 on the branch that carries the full value over. *)
Moved(avail, slopeSum, flowRate, step) ==
  IF Flows(slopeSum, avail) THEN Min(avail, Capacity(flowRate, step, slopeSum)) ELSE 0

(* inv * w, added to the neighbour when w > 0. *)
Share(moved, w, slopeSum) == IF w > 0 THEN (moved * w) \div slopeSum ELSE 0

(* The offset that leads back from a neighbour. *)
Opposite(k) == CASE k = 1 -> 2 [] k = 2 -> 1 [] k = 3 -> 4 [] k = 4 -> 3
                 [] k = 5 -> 8 [] k = 8 -> 5 [] k = 6 -> 7 [] k = 7 -> 6

(* The transport pass: out[] after the slope-capacity loop. *)
Transport(temp, gr, flowRate, step) ==
  LET drops == Table(Drops(temp, gr))
      ssum == Table([i \in Cells |-> SlopeSum(drops[i])])
      moved == Table([i \in Cells |-> Moved(temp[i], ssum[i], flowRate, step)])
      recv(j, k) ==
        LET i == NbrAt(j, k)
        IN  IF i = -1 \/ ~Flows(ssum[i], temp[i]) THEN 0
            ELSE Share(moved[i], drops[i][Opposite(k)], ssum[i])
  IN  [j \in Cells |->
         (temp[j] - moved[j])
         + recv(j, 1) + recv(j, 2) + recv(j, 3) + recv(j, 4)
         + recv(j, 5) + recv(j, 6) + recv(j, 7) + recv(j, 8)]

(* The discrete Laplacian over the four in-grid orthogonal neighbours. *)
Laplacian(out, i) ==
  LET x == i % N
      y == i \div N
  IN  out[i] * (-4)
      + (IF x > 0 THEN out[i - 1] ELSE 0)
      + (IF x < N - 1 THEN out[i + 1] ELSE 0)
      + (IF y > 0 THEN out[i - N] ELSE 0)
      + (IF y < N - 1 THEN out[i + N] ELSE 0)

Diffuse(out, viscosity, step) ==
  IF viscosity > ViscEps
  THEN [i \in Cells |-> out[i] + (viscosity * step * Laplacian(out, i)) \div (ViscDen * TimeDen)]
  ELSE out

(* CoolQuantize without the cooling term. *)
QuantizeOnly(o, cooling, step) == Max(0, Min(255, o \div Sub))

(* floor(max(0, out - cooling * step) * 255), clamped to 0..255.  With       *)
(* out = q * Sub + r the value (out - cooling*step) * 255 is, in quanta,     *)
(* q + (r * CoolDen * TimeDen - cooling * step * 255 * Sub)                  *)
(*       / (Sub * CoolDen * TimeDen).                                        *)
CoolQuantize(o, cooling, step) ==
  LET q == o \div Sub
      r == o % Sub
      v == q + (r * CoolDen * TimeDen - cooling * step * 255 * Sub) \div (Sub * CoolDen * TimeDen)
  IN  Max(0, Min(255, Max(0, v)))

(* HasActiveLava without the scan: the early exit is never taken. *)
AlwaysActive(g) == TRUE

HasActiveLava(g) == \E i \in Cells : g[i] > 0

(* ClampStep without Math.min. *)
UnclampedStep(dt) == dt

ClampStep(dt) == Min(MaxStep, dt)

simulateLava(p, g, gr, dt, flowRate, cooling, viscosity) ==
  IF p THEN g
  ELSE IF ~HasActiveLava(g) THEN g
  ELSE LET step == ClampStep(dt)
           temp == Table([i \in Cells |-> g[i] * Sub])
           out == Table(Transport(temp, gr, flowRate, step))
           dif == Table(Diffuse(out, viscosity, step))
       IN  [i \in Cells |-> ToUint8(CoolQuantize(dif[i], cooling, step))]

---------------------------------------------------------------------------
(* RealisticLavaSimulator *)

AMBIENT_TEMP == 200          \* 20 C
SOLIDIFICATION_TEMP == 7000  \* 700 C
INITIAL_TEMP == 12000        \* 1200 C
VISCOSITY_SOLID == 1000      \* 1e6 Pa s
YIELD_STRENGTH == 100        \* Pa
CrustTemp == 9000            \* 900 C
ErosionTemp == 10000         \* 1000 C
ErosionThickness == 100      \* 0.1 m
MaxErosion == 1000           \* 1.0 m
SkipThickness == 1           \* 0.001 m
VelocityMinThickness == 10   \* 0.01 m
FluxMinVelocity == 100       \* 0.01 m/s
FluxMinThickness == 50       \* 0.05 m
InjectCellRadius == 3        \* radius, in cells

HeightIdx == 0 .. (ResN * ResN - 1)

(* floor(sqrt(n)), found bit by bit. *)
RECURSIVE IsqrtBits(_, _, _)
IsqrtBits(n, r, b) ==
  IF b = 0 THEN r
  ELSE IF (r + b) <= n \div (r + b) THEN IsqrtBits(n, r + b, b \div 2)
  ELSE IsqrtBits(n, r, b \div 2)

Isqrt(n) == IsqrtBits(n, 0, 32768)

(* floor(a * b / c) for a, b >= 0 and c > 0, without forming a * b. *)
MulDiv(a, b, c) == ((a \div c) * b) + (((a % c) * b) \div c)

(* -1, 0 or 1 *)
Sign(a) == IF a > 0 THEN 1 ELSE IF a < 0 THEN -1 ELSE 0

(* Math.sqrt(v[0] * v[0] + v[1] * v[1]) *)
Magnitude(v) == Isqrt(v[1] * v[1] + v[2] * v[2])

(* exp(A + B / (T - T0)) in ViscUnit Pa s at 700 C, 710 C, ... 1400 C, capped *)
(* at 2 * 10^9.                                                               *)
VftTable ==
  << 2000000000, 2000000000, 2000000000, 2000000000, 2000000000, 2000000000, 2000000000, 2000000000,
     2000000000, 2000000000, 2000000000, 1220190711, 451391238, 179941778, 76672342, 34676917,
     16546803, 8286653, 4335545, 2360262, 1332260, 777263, 467400, 288984,
     183300, 119039, 79010, 53511, 36926, 25929, 18504, 13407,
     9852, 7336, 5530, 4218, 3252, 2534, 1993, 1582,
     1267, 1022, 832, 681, 562, 467, 390, 328,
     277, 235, 201, 173, 149, 129, 112, 98,
     86, 75, 67, 59, 52, 47, 42, 37,
     34, 30, 27, 25, 22, 20, 19 >>

VftStep == 100   \* 10 C between two entries of VftTable

(* Math.exp(A + B / (T - T0)) * 1000 at a temperature of 700 C or more: read off *)
(* VftTable, linear between two entries.                                        *)
Vft(temperature) ==
  LET k == Min(Len(VftTable), ((temperature - SOLIDIFICATION_TEMP) \div VftStep) + 1)
      lo == VftTable[k]
      hi == IF k < Len(VftTable) THEN VftTable[k + 1] ELSE lo
  IN  lo - MulDiv(lo - hi, (temperature - SOLIDIFICATION_TEMP) % VftStep, VftStep)

calculateViscosity(temperature) ==
  IF temperature < SOLIDIFICATION_TEMP THEN VISCOSITY_SOLID
  ELSE Vft(temperature)

(* velocity * s / slopeMagnitude: zero only when the velocity or s is zero, so *)
(* that the sign which the flux tests read survives the rounding.             *)
Component(velocity, s, slopeMagnitude) ==
  IF velocity = 0 \/ s = 0 THEN 0
  ELSE Sign(s) * Max(1, MulDiv(velocity, Abs(s), slopeMagnitude))

(* DENSITY * 9.81 * thickness * slopeMagnitude, in Pa: 24525 / (MilliDen * SlopeDen) = 981 / 80000 *)
ShearStress(thickness, slopeMagnitude) == MulDiv(thickness * slopeMagnitude, 981, 80000)

(* calculateFlowVelocity without the yield test. *)
FlowVelocityNoYield(cell, slope) ==
  IF cell.solid \/ cell.thickness < VelocityMinThickness THEN <<0, 0>>
  ELSE LET slopeMagnitude == Magnitude(slope)
       IN  IF slopeMagnitude = 0 THEN <<0, 0>>
           ELSE LET excessStress == ShearStress(cell.thickness, slopeMagnitude) - YIELD_STRENGTH
                    velocity == MulDiv(excessStress, cell.thickness, 1000) \div cell.viscosity
                IN  << Component(velocity, slope[1], slopeMagnitude),
                       Component(velocity, slope[2], slopeMagnitude) >>

calculateFlowVelocity(cell, slope) ==
  IF cell.solid \/ cell.thickness < VelocityMinThickness THEN <<0, 0>>
  ELSE LET slopeMagnitude == Magnitude(slope)
       IN  IF slopeMagnitude = 0 THEN <<0, 0>>
           ELSE IF ShearStress(cell.thickness, slopeMagnitude) < YIELD_STRENGTH THEN <<0, 0>>
           ELSE LET excessStress == ShearStress(cell.thickness, slopeMagnitude) - YIELD_STRENGTH
                    velocity == MulDiv(excessStress, cell.thickness, 1000) \div cell.viscosity
                IN  << Component(velocity, slope[1], slopeMagnitude),
                       Component(velocity, slope[2], slopeMagnitude) >>

(* (T + 273.15)^4 in 10^4 K^4 *)
Kelvin4(temperature) ==
  LET k == (temperature + 2731) \div TempDen
      q == (k * k) \div 100
  IN  q * q

(* emissivity * stefanBoltzmann * (T_surface^4 - T_ambient^4), in W: 0.95 * 5.67e-8 * 10^4 = 539 / 10^6 *)
RadiativeLoss(temperature) == (((Kelvin4(temperature) - Kelvin4(AMBIENT_TEMP)) \div 1000) * 539) \div 1000

(* CONDUCTIVE_COOLING * (T - AMBIENT), in W *)
ConductiveLoss(temperature) == (3 * (temperature - AMBIENT_TEMP)) \div (10 * TempDen)

(* CONVECTIVE_COOLING * |velocity| * (T - AMBIENT), in W *)
ConvectiveLoss(temperature, velocity) ==
  (Magnitude(velocity) * (temperature - AMBIENT_TEMP)) \div (2 * VelDen * TempDen)

(* totalHeatLoss / (mass * specificHeat): mass * specificHeat = 2500 * thickness J/K per 1/MilliDen m *)
TempChange(cell, dt) ==
  ((RadiativeLoss(cell.temperature) + ConductiveLoss(cell.temperature)
      + ConvectiveLoss(cell.temperature, cell.velocity)) * dt)
    \div (((2500 * TimeDen) \div TempDen) * cell.thickness)

(* Solidify without the solidification check. *)
NeverSolidify(cell) == cell

Solidify(cell) ==
  IF cell.temperature < SOLIDIFICATION_TEMP
  THEN [cell EXCEPT !.solid = TRUE, !.velocity = <<0, 0>>]
  ELSE cell

GrowCrust(cell, dt) ==
  IF cell.temperature < CrustTemp /\ ~cell.solid
  THEN [cell EXCEPT !.crust = @ + (dt * MilliDen) \div (10 * TimeDen)]
  ELSE cell

updateThermalProperties(cell, dt) ==
  IF cell.thickness < SkipThickness THEN cell
  ELSE LET temperature == Max(AMBIENT_TEMP, cell.temperature - TempChange(cell, dt))
           cooled == [cell EXCEPT !.temperature = temperature,
                                  !.viscosity = calculateViscosity(temperature)]
           done == Solidify(GrowCrust(cooled, dt))
       IN  [done EXCEPT !.age = @ + dt]

(* EROSION_RATE * dt * (T - 1000) / 200, in 1/MilliDen m *)
Erosion(cell, dt) == (dt * (cell.temperature - ErosionTemp)) \div 200000

(* The index modifyTerrain writes in heightData, or -1 when it is no index of the array. *)
HeightIndex(x, y) ==
  IF (x * ResN) % N = 0 /\ y * ResN + ((x * ResN) \div N) < ResN * ResN
  THEN y * ResN + ((x * ResN) \div N)
  ELSE -1

(* ModifiedRecord without the update of the total elevation. *)
ModifiedStale(mod, cell, dt) ==
  LET base == IF cell.temperature > ErosionTemp /\ cell.thickness > ErosionThickness
              THEN Max(mod.baseElevation - Erosion(cell, dt), mod.baseElevation - MaxErosion)
              ELSE mod.baseElevation
      deposit == IF cell.solid /\ cell.thickness > 0
                 THEN Max(mod.lavaThickness, cell.thickness \div 2)
                 ELSE mod.lavaThickness
  IN  [elevation |-> mod.elevation, baseElevation |-> base, lavaThickness |-> deposit]

ModifiedRecord(mod, cell, dt) ==
  LET base == IF cell.temperature > ErosionTemp /\ cell.thickness > ErosionThickness
              THEN Max(mod.baseElevation - Erosion(cell, dt), mod.baseElevation - MaxErosion)
              ELSE mod.baseElevation
      deposit == IF cell.solid /\ cell.thickness > 0
                 THEN Max(mod.lavaThickness, cell.thickness \div 2)
                 ELSE mod.lavaThickness
  IN  [elevation |-> base + deposit, baseElevation |-> base, lavaThickness |-> deposit]

(* modifyTerrain on the pair of terrainMods and heightData *)
modifyTerrain(st, x, y, cell, dt) ==
  LET mod == ModifiedRecord(st.mods[y * N + x], cell, dt)
  IN  [st EXCEPT !.mods[y * N + x] = mod,
                 !.hd = IF HeightIndex(x, y) = -1 THEN @
                        ELSE [@ EXCEPT ![HeightIndex(x, y)] = mod.elevation]]

(* newLavaField[j].thickness += amount; temperature = max(temperature, source temperature) *)
Receive(field, j, amount, temperature) ==
  [field EXCEPT ![j].thickness = @ + amount, ![j].temperature = Max(@, temperature)]

(* Flux without the cap at half the thickness. *)
FluxUncapped(thickness, velocityMag, dt) == MulDiv(velocityMag * dt, thickness, 1000) \div 1000

(* min(thickness * 0.5, velocityMag * dt * thickness) *)
Flux(thickness, velocityMag, dt) ==
  IF velocityMag * dt >= (VelDen * TimeDen) \div 2 THEN thickness \div 2
  ELSE Min(thickness \div 2, MulDiv(velocityMag * dt, thickness, 1000) \div 1000)

(* The flux redistribution of cell (x, y): field[i] already holds its new velocity, *)
(* cell is the cell as it was before the tick.  fluxX and fluxY have the sign of    *)
(* the velocity components whenever flux > 0, that is whenever dt > 0.              *)
Redistribute(field, x, y, cell, dt) ==
  LET i == y * N + x
      newCell == field[i]
      velocityMag == Magnitude(newCell.velocity)
  IN  IF velocityMag > FluxMinVelocity /\ newCell.thickness > FluxMinThickness
      THEN LET flux == Flux(newCell.thickness, velocityMag, dt)
               signX == IF dt > 0 THEN Sign(newCell.velocity[1]) ELSE 0
               signY == IF dt > 0 THEN Sign(newCell.velocity[2]) ELSE 0
               fluxX == MulDiv(flux, Abs(newCell.velocity[1]), velocityMag)
               fluxY == MulDiv(flux, Abs(newCell.velocity[2]), velocityMag)
               f1 == IF signX > 0 /\ x < N - 1 THEN Receive(field, i + 1, fluxX \div 2, cell.temperature)
                     ELSE IF signX < 0 /\ x > 0 THEN Receive(field, i - 1, fluxX \div 2, cell.temperature)
                     ELSE field
               f2 == IF signY > 0 /\ y < N - 1 THEN Receive(f1, i + N, fluxY \div 2, cell.temperature)
                     ELSE IF signY < 0 /\ y > 0 THEN Receive(f1, i - N, fluxY \div 2, cell.temperature)
                     ELSE f1
           IN  [f2 EXCEPT ![i].thickness = Max(0, @ - (fluxX + fluxY))]
      ELSE field

(* terrainMods[j].elevation + lavaField[j].thickness: the terrain as modified so far in *)
(* the sweep, the lava as it was before the tick.                                      *)
SurfaceHeight(mods, old, j) == mods[j].elevation + old[j].thickness

(* The body of the loop of simulate for the interior cell (x, y). *)
SimulateCell(st, old, x, y, dt) ==
  LET i == y * N + x
      cell == old[i]
  IN  IF cell.thickness < SkipThickness THEN st
      ELSE LET slope == << SurfaceHeight(st.mods, old, i + 1) - SurfaceHeight(st.mods, old, i - 1),
                           SurfaceHeight(st.mods, old, i + N) - SurfaceHeight(st.mods, old, i - N) >>
               cooled == updateThermalProperties(st.field[i], dt)
               f0 == [st.field EXCEPT ![i] = cooled]
               f1 == IF cooled.solid THEN f0
                     ELSE Redistribute([f0 EXCEPT ![i].velocity = calculateFlowVelocity(cooled, slope)],
                                       x, y, cell, dt)
           IN  modifyTerrain([st EXCEPT !.field = f1], x, y, f1[i], dt)

Interior == (N - 2) * (N - 2)
InteriorX(k) == 1 + ((k - 1) % (N - 2))
InteriorY(k) == 1 + ((k - 1) \div (N - 2))

(* The sweep of simulate over the interior cells, row by row, from the k-th on. *)
RECURSIVE SimulateFrom(_, _, _, _)
SimulateFrom(k, st, old, dt) ==
  IF k > Interior THEN st
  ELSE SimulateFrom(k + 1, SimulateCell(st, old, InteriorX(k), InteriorY(k), dt), old, dt)

(* simulate(dt): the new lavaField, terrainMods and heightData. *)
simulate(field, mods, hd, dt) == SimulateFrom(1, [field |-> field, mods |-> mods, hd |-> hd], field, dt)

(* (1 - distance / radius) * radius, in 1/1000, for the squared distance d2 *)
InjectWeight(d2) == InjectCellRadius * 1000 - Isqrt(d2 * 1000000)

(* amount * weight * 0.01, in 1/MilliDen m *)
NewThickness(amount, d2) == (amount * InjectWeight(d2)) \div (InjectCellRadius * 100)

(* MixedCell with the injected temperature in the place of the mixed one. *)
ReplacedCell(cell, newThickness, temperature) ==
  IF cell.thickness + newThickness > 0
  THEN [cell EXCEPT !.temperature = temperature, !.thickness = @ + newThickness, !.solid = FALSE,
                    !.age = 0, !.crust = 0, !.viscosity = calculateViscosity(temperature)]
  ELSE cell

(* Thermal mixing of a cell with newThickness of lava at the given temperature. *)
MixedCell(cell, newThickness, temperature) ==
  IF cell.thickness + newThickness > 0
  THEN LET mixed == (cell.temperature * cell.thickness + temperature * newThickness)
                      \div (cell.thickness + newThickness)
       IN  [cell EXCEPT !.temperature = mixed, !.thickness = @ + newThickness, !.solid = FALSE,
                        !.age = 0, !.crust = 0, !.viscosity = calculateViscosity(mixed)]
  ELSE cell

ThermalInjectX(u) == (u * (N - 1)) \div UVDen
ThermalInjectY(v) == (v * (N - 1)) \div UVDen

injectLava(field, u, v, amount, temperature) ==
  [c \in Cells |->
     LET dx == (c % N) - ThermalInjectX(u)
         dy == (c \div N) - ThermalInjectY(v)
     IN  IF Abs(dx) <= InjectCellRadius /\ Abs(dy) <= InjectCellRadius
            /\ dx * dx + dy * dy <= InjectCellRadius * InjectCellRadius
         THEN MixedCell(field[c], NewThickness(amount, dx * dx + dy * dy), temperature)
         ELSE field[c]]

ClearedCell(cell) ==
  [cell EXCEPT !.thickness = 0, !.temperature = AMBIENT_TEMP, !.velocity = <<0, 0>>,
               !.solid = TRUE, !.age = 0, !.crust = 0]

ClearedMod(mod) == [mod EXCEPT !.elevation = mod.baseElevation, !.lavaThickness = 0]

(* clear(): the new lavaField, terrainMods and heightData. *)
clear(field, mods, original) ==
  [field |-> [c \in Cells |-> ClearedCell(field[c])],
   mods |-> [c \in Cells |-> ClearedMod(mods[c])],
   hd |-> original]

(* sampleHeightAtUV(x / (flowN - 1), y / (flowN - 1)) *)
sampleHeightAtUV(original, x, y) ==
  original[((y * (ResN - 1)) \div (N - 1)) * ResN + ((x * (ResN - 1)) \div (N - 1))]

(* The lavaField and the terrainMods the constructor builds. *)
InitialCell ==
  [thickness |-> 0, temperature |-> AMBIENT_TEMP, velocity |-> <<0, 0>>,
   viscosity |-> VISCOSITY_SOLID, age |-> 0, crust |-> 0, solid |-> TRUE]

InitialField == [c \in Cells |-> InitialCell]

InitialMods(original) ==
  [c \in Cells |->
     [elevation |-> sampleHeightAtUV(original, c % N, c \div N),
      baseElevation |-> sampleHeightAtUV(original, c % N, c \div N),
      lavaThickness |-> 0]]

---------------------------------------------------------------------------
(* The host: updateLavaSimulation and the imperative handle of Viewport, the *)
(* pointer handlers of attachClickSpawner.                                   *)

NoPoint == <<>>

(* The config state App starts with: DEFAULT_VALUES. *)
DefaultConfig ==
  [injectionAmount |-> 255 * AmountDen, injectionRadius |-> 1,
   flowRate |-> 2 * RateDen, cooling |-> 1, viscosity |-> 10]

(* The config the animation loop reads.  animate is created once, by the mount *)
(* effect of Viewport (dependencies []), and calls the updateLavaSimulation of *)
(* that first render, whose config is the one App started with.                *)
MountConfig == DefaultConfig

(* The default arguments of injectLavaUV, which spawnAt relies on. *)
DefaultAmount == 255 * AmountDen
DefaultRadius == 1

(* setupLavaSystem always builds a RealisticLavaSimulator and stores it. *)
HasRealisticSim == TRUE

CallInject(u, v, amount, radius) == <<"injectLavaUV", u, v, amount, radius>>
CallSimulate(dt, flowRate, cooling, viscosity) == <<"simulateLava", dt, flowRate, cooling, viscosity>>

(* One call of injectLavaUV on the running pair of grid and call list. *)
RunInject(s, u, v, amount, radius) ==
  [lava |-> injectLavaUV(s.lava, u, v, amount, radius),
   calls |-> Append(s.calls, CallInject(u, v, amount, radius))]

(* Continuous lava injection (while holding mouse) *)
HeldInjection(cfg, s, hold, point) ==
  IF hold /\ point # NoPoint
  THEN RunInject(s, point[1], point[2], cfg.injectionAmount, cfg.injectionRadius)
  ELSE s

(* for (const vent of lava.persistentVents), from the k-th vent on *)
RECURSIVE VentLoop(_, _, _, _)
VentLoop(cfg, s, vents, k) ==
  IF k > Len(vents) THEN s
  ELSE VentLoop(cfg, RunInject(s, vents[k][1], vents[k][2], cfg.injectionAmount, cfg.injectionRadius),
                vents, k + 1)

(* Persistent lava injection (all vents) *)
VentInjection(cfg, s, enabled, vents) ==
  IF enabled /\ Len(vents) > 0 THEN VentLoop(cfg, s, vents, 1) ELSE s

(* Run lava physics simulation *)
RunSimulate(cfg, s, p, gr, dt) ==
  [lava |-> simulateLava(p, s.lava, gr, dt, cfg.flowRate, cfg.cooling, cfg.viscosity),
   calls |-> Append(s.calls, CallSimulate(dt, cfg.flowRate, cfg.cooling, cfg.viscosity))]

(* updateLavaSimulation without the test of lava.paused. *)
updateIgnoringPause(cfg, g, gr, p, hold, point, enabled, vents, dt) ==
  RunSimulate(cfg,
              VentInjection(cfg, HeldInjection(cfg, [lava |-> g, calls |-> <<>>], hold, point),
                            enabled, vents),
              p, gr, dt)

(* updateLavaSimulation(dt) of the render whose config is cfg: the new grid and *)
(* the engine calls made, in order.                                            *)
updateLavaSimulation(cfg, g, gr, p, hold, point, enabled, vents, dt) ==
  IF p THEN [lava |-> g, calls |-> <<>>]
  ELSE RunSimulate(cfg,
                   VentInjection(cfg, HeldInjection(cfg, [lava |-> g, calls |-> <<>>], hold, point),
                                 enabled, vents),
                   p, gr, dt)

(* dt of animate: Math.min(0.1, elapsed), passed on doubled. *)
FrameCap == 10   \* 0.1 s

FrameDt(elapsed) == 2 * Min(FrameCap, elapsed)

---------------------------------------------------------------------------
(* Inputs. *)

GroundShapes == {"flat", "ramp", "peak", "bowl"}

(* Ground fields the grid can be given: heights sampled from the terrain. *)
GroundOf(shape) ==
  [i \in Cells |->
     LET x == i % N
         y == i \div N
         c == (N - 1) \div 2
         dist == Max(Abs(x - c), Abs(y - c))
     IN  CASE shape = "flat" -> 0
           [] shape = "ramp" -> x * GroundStep
           [] shape = "peak" -> (N - dist) * GroundStep * 100
           [] shape = "bowl" -> dist * GroundStep]

ZeroGrid == [i \in Cells |-> 0]

(* <<u, v, injectionAmount, injectionRadius>> *)
InjectProfiles ==
  { <<2, 2, 510, 1>>, <<2, 2, 2000, 1000>>, <<0, 4, 510, 1>>, <<0, 4, 61, 1>>,
    <<4, 0, 200, 1000>>, <<3, 2, 0, 1>> }

(* Calls off the sliders' ranges: a negative radius fraction, u and v outside *)
(* [0, 1], a negative amount.                                                *)
EdgeInjectProfiles ==
  { <<2, 2, 510, -100>>, <<-2, 6, 510, 1>>, <<5, 2, 200, 1>>, <<2, 2, -200, 1>> }

(* <<dt, flowRate, cooling, viscosity>> *)
TickProfiles ==
  { <<5, 0, 5, 0>>, <<0, 0, 5, 0>>, <<20, 0, 200, 0>>, <<20, 200, 0, 0>>, <<5, 50, 0, 0>>,
    <<20, -100, 0, 0>>, <<20, 0, -200, 0>>, <<7, 200, 1, 10>>, <<20, 200, 0, 200>>,
    <<-10, 50, 200, 0>> }

(* Injections CoolSpec starts from. *)
CoolInjects == { <<2, 2, 61, 1>>, <<0, 4, 61, 1>> }

(* <<dt, flowRate, cooling, viscosity>> with cooling > 0 and dt > 0. *)
CoolingProfiles ==
  { <<20, 0, 200, 0>>, <<20, 200, 200, 200>>, <<5, 50, 100, 0>>, <<20, -100, 1, 0>> }

Inject1(g, p) == injectLavaUV(g, p[1], p[2], p[3], p[4])

(* Grids that injections produce, from which SimSpec starts. *)
SeedGrids ==
  {ZeroGrid} \cup {Inject1(ZeroGrid, p) : p \in InjectProfiles}
    \cup {Inject1(Inject1(ZeroGrid, p), q) : p \in InjectProfiles, q \in InjectProfiles}

HeightShapes == {"flat", "east", "south"}

(* Height maps the terrain loader can hand over. *)
HeightMapOf(shape) ==
  [k \in HeightIdx |->
     CASE shape = "flat" -> 0
       [] shape = "east" -> (k % ResN) * TerrainStep
       [] shape = "south" -> (k \div ResN) * TerrainStep]

(* <<u, v, amount, temperature>> *)
ThermalInjects ==
  { <<2, 2, 200, INITIAL_TEMP>>, <<0, 0, 1000, INITIAL_TEMP>>, <<2, 2, 7, 7050>>, <<4, 2, 50, 5000>> }

ThermalDts == {10, 100, 1000}

ThicknessCap == 3000   \* injectLava is tried only while no cell is thicker than this

HostUVs == { <<2, 2>>, <<0, 4>> }

Elapsed == {10}

(* Values the sidebar sliders can set, per config key. *)
SliderValues ==
  [injectionAmount |-> {30 * AmountDen}, injectionRadius |-> {200},
   flowRate |-> {5}, cooling |-> {200}, viscosity |-> {200}]

---------------------------------------------------------------------------
(* The state after construction. *)

(* The fields setupLavaSystem gives a LavaSystem. *)
HostFresh ==
  /\ paused = FALSE
  /\ holding = FALSE
  /\ continuousPoint = NoPoint
  /\ persistentVentsEnabled = TRUE
  /\ persistentVents = <<>>
  /\ config = DefaultConfig

(* new RealisticLavaSimulator(..., heightData, ...) *)
ThermalFresh(hm) ==
  /\ lavaField = InitialField
  /\ terrainMods = InitialMods(hm)
  /\ heightData = hm
  /\ originalHeightData = hm

---------------------------------------------------------------------------
(* InjSpec: injections into the primary grid. *)

InjInit ==
  /\ lava = ZeroGrid
  /\ ground = GroundOf("flat")
  /\ HostFresh
  /\ ThermalFresh(HeightMapOf("flat"))
  /\ calls = <<>> /\ op = "init" /\ pre = ZeroGrid /\ arg = <<>> /\ steps = 0

InjInject ==
  /\ steps < MaxInjects
  /\ \E p \in InjectProfiles \cup EdgeInjectProfiles :
       /\ lava' = injectLavaUV(lava, p[1], p[2], p[3], p[4])
       /\ arg' = [u |-> p[1], v |-> p[2], amount |-> p[3], radius |-> p[4]]
       /\ calls' = <<CallInject(p[1], p[2], p[3], p[4])>>
  /\ op' = "inject" /\ pre' = lava /\ steps' = steps + 1
  /\ UNCHANGED <<ground, hostVars, thermalVars>>

InjNext == InjInject

InjSpec == InjInit /\ [][InjNext]_vars

---------------------------------------------------------------------------
(* SimSpec: ticks of the primary engine, with no injection in between. *)

SimInit ==
  /\ lava \in SeedGrids
  /\ ground \in {GroundOf(s) : s \in GroundShapes}
  /\ HostFresh
  /\ ThermalFresh(HeightMapOf("flat"))
  /\ calls = <<>> /\ op = "init" /\ pre = lava /\ arg = <<>> /\ steps = 0

SimTick ==
  /\ steps < MaxTicks
  /\ \E p \in TickProfiles :
       /\ lava' = simulateLava(paused, lava, ground, p[1], p[2], p[3], p[4])
       /\ arg' = [dt |-> p[1], flowRate |-> p[2], cooling |-> p[3], viscosity |-> p[4]]
       /\ calls' = <<CallSimulate(p[1], p[2], p[3], p[4])>>
  /\ op' = "tick" /\ pre' = lava /\ steps' = steps + 1
  /\ UNCHANGED <<ground, hostVars, thermalVars>>

SimNext == SimTick

SimSpec == SimInit /\ [][SimNext]_vars

---------------------------------------------------------------------------
(* FlowSpec: the passes of one tick of the primary engine, from the grids *)
(* that injections produce.                                               *)

FlowTick ==
  /\ steps < MaxFlowTicks
  /\ \E p \in TickProfiles :
       /\ lava' = simulateLava(paused, lava, ground, p[1], p[2], p[3], p[4])
       /\ arg' = [dt |-> p[1], flowRate |-> p[2], cooling |-> p[3], viscosity |-> p[4]]
       /\ calls' = <<CallSimulate(p[1], p[2], p[3], p[4])>>
  /\ op' = "tick" /\ pre' = lava /\ steps' = steps + 1
  /\ UNCHANGED <<ground, hostVars, thermalVars>>

FlowNext == FlowTick

FlowSpec == SimInit /\ [][FlowNext]_vars

---------------------------------------------------------------------------
(* CoolSpec: ticks with cooling and nothing else (no vent, no held pointer, *)
(* no injection), for as long as the caller goes on; steps counts the ticks *)
(* with a negative mobility.                                                *)

CoolInit ==
  /\ lava \in {Inject1(ZeroGrid, p) : p \in CoolInjects}
  /\ ground \in {GroundOf("flat"), GroundOf("ramp")}
  /\ HostFresh
  /\ ThermalFresh(HeightMapOf("flat"))
  /\ calls = <<>> /\ op = "init" /\ pre = lava /\ arg = <<>> /\ steps = 0

CoolTick ==
  /\ \E p \in CoolingProfiles :
       /\ p[2] < 0 => steps < MaxNegativeTicks
       /\ steps' = IF p[2] < 0 THEN steps + 1 ELSE steps
       /\ lava' = simulateLava(paused, lava, ground, p[1], p[2], p[3], p[4])
       /\ arg' = [dt |-> p[1], flowRate |-> p[2], cooling |-> p[3], viscosity |-> p[4]]
       /\ calls' = <<CallSimulate(p[1], p[2], p[3], p[4])>>
  /\ op' = "tick" /\ pre' = lava
  /\ UNCHANGED <<ground, hostVars, thermalVars>>

CoolNext == CoolTick

(* The animation loop goes on calling: CoolTick is always enabled, so weak  *)
(* fairness of CoolTick is that it is taken again and again.                *)
CoolFair == []<><<CoolTick>>_vars

CoolSpec == CoolInit /\ [][CoolNext]_vars /\ CoolFair

---------------------------------------------------------------------------
(* ThermalSpec: the thermal engine under injectLava, simulate and clear. *)

ThermalInit ==
  /\ lava = ZeroGrid
  /\ ground = GroundOf("flat")
  /\ HostFresh
  /\ \E s \in HeightShapes : ThermalFresh(HeightMapOf(s))
  /\ calls = <<>> /\ op = "init" /\ pre = InitialField /\ arg = <<>> /\ steps = 0

ThermalInject ==
  /\ steps < MaxThermalSteps
  /\ \A c \in Cells : lavaField[c].thickness <= ThicknessCap
  /\ \E p \in ThermalInjects :
       /\ lavaField' = injectLava(lavaField, p[1], p[2], p[3], p[4])
       /\ arg' = [u |-> p[1], v |-> p[2], amount |-> p[3], temperature |-> p[4]]
  /\ op' = "injectLava" /\ pre' = lavaField /\ steps' = steps + 1 /\ calls' = <<>>
  /\ UNCHANGED <<primaryVars, hostVars, terrainMods, heightData, originalHeightData>>

ThermalSimulate ==
  /\ steps < MaxThermalSteps
  /\ \E dt \in ThermalDts :
       LET st == simulate(lavaField, terrainMods, heightData, dt)
       IN  /\ lavaField' = st.field
           /\ terrainMods' = st.mods
           /\ heightData' = st.hd
           /\ arg' = [dt |-> dt, mods |-> terrainMods, hd |-> heightData]
  /\ op' = "simulate" /\ pre' = lavaField /\ steps' = steps + 1 /\ calls' = <<>>
  /\ UNCHANGED <<primaryVars, hostVars, originalHeightData>>

ThermalClear ==
  /\ steps < MaxThermalSteps
  /\ LET st == clear(lavaField, terrainMods, originalHeightData)
     IN  /\ lavaField' = st.field
         /\ terrainMods' = st.mods
         /\ heightData' = st.hd
  /\ op' = "clear" /\ pre' = lavaField /\ arg' = <<>> /\ steps' = steps + 1 /\ calls' = <<>>
  /\ UNCHANGED <<primaryVars, hostVars, originalHeightData>>

ThermalNext == ThermalInject \/ ThermalSimulate \/ ThermalClear

ThermalSpec == ThermalInit /\ [][ThermalNext]_vars

---------------------------------------------------------------------------
(* Spec: the host.  Pointer events, frames of the animation loop and the   *)
(* commands of the imperative handle, in any order.                         *)

Init ==
  /\ lava = ZeroGrid
  /\ ground = GroundOf("ramp")
  /\ HostFresh
  /\ ThermalFresh(HeightMapOf("flat"))
  /\ calls = <<>> /\ op = "init" /\ pre = ZeroGrid /\ arg = <<>> /\ steps = 0

(* placeVent *)
placeVent(vents, uv) == Append(vents, uv)

(* onDown with the left button, or a single tap: spawnAt(hit). *)
OnDownLeft ==
  /\ steps < MaxHostSteps
  /\ \E uv \in HostUVs :
       /\ holding' = TRUE
       /\ continuousPoint' = uv
       /\ lava' = injectLavaUV(lava, uv[1], uv[2], DefaultAmount, DefaultRadius)
       /\ calls' = <<CallInject(uv[1], uv[2], DefaultAmount, DefaultRadius)>>
       /\ arg' = uv
  /\ op' = "onDown" /\ pre' = lava /\ steps' = steps + 1
  /\ UNCHANGED <<ground, paused, persistentVentsEnabled, persistentVents, thermalVars, config>>

(* onDown with the right button: placeVent(hit). *)
OnDownRight ==
  /\ steps < MaxHostSteps
  /\ Len(persistentVents) < MaxVents
  /\ \E uv \in HostUVs :
       /\ persistentVents' = placeVent(persistentVents, uv)
       /\ arg' = uv
  /\ op' = "placeVent" /\ pre' = lava /\ steps' = steps + 1 /\ calls' = <<>>
  /\ UNCHANGED <<primaryVars, paused, holding, continuousPoint, persistentVentsEnabled, thermalVars, config>>

(* onDown as the second tap of a double tap: placeVent(hit), and the flow of the first tap stops. *)
OnDoubleTap ==
  /\ steps < MaxHostSteps
  /\ Len(persistentVents) < MaxVents
  /\ \E uv \in HostUVs :
       /\ persistentVents' = placeVent(persistentVents, uv)
       /\ arg' = uv
  /\ holding' = FALSE
  /\ continuousPoint' = NoPoint
  /\ op' = "placeVent" /\ pre' = lava /\ steps' = steps + 1 /\ calls' = <<>>
  /\ UNCHANGED <<primaryVars, paused, persistentVentsEnabled, thermalVars, config>>

OnMove ==
  /\ steps < MaxHostSteps
  /\ holding
  /\ \E uv \in HostUVs :
       /\ continuousPoint' = uv
       /\ arg' = uv
  /\ op' = "onMove" /\ pre' = lava /\ steps' = steps + 1 /\ calls' = <<>>
  /\ UNCHANGED <<primaryVars, paused, holding, persistentVentsEnabled, persistentVents, thermalVars, config>>

OnUp ==
  /\ steps < MaxHostSteps
  /\ holding' = FALSE
  /\ continuousPoint' = NoPoint
  /\ op' = "onUp" /\ pre' = lava /\ arg' = <<>> /\ steps' = steps + 1 /\ calls' = <<>>
  /\ UNCHANGED <<primaryVars, paused, persistentVentsEnabled, persistentVents, thermalVars, config>>

(* One frame of animate in which the expensive updates run. *)
Animate ==
  /\ steps < MaxHostSteps
  /\ \E e \in Elapsed :
       LET r == updateLavaSimulation(MountConfig, lava, ground, paused, holding, continuousPoint,
                                     persistentVentsEnabled, persistentVents, FrameDt(e))
       IN  /\ lava' = r.lava
           /\ calls' = r.calls
           /\ arg' = [dt |-> FrameDt(e)]
  /\ op' = "tick" /\ pre' = lava /\ steps' = steps + 1
  /\ UNCHANGED <<ground, hostVars, thermalVars>>

ClearLava ==
  /\ steps < MaxHostSteps
  /\ IF HasRealisticSim
     THEN LET st == clear(lavaField, terrainMods, originalHeightData)
          IN  /\ lavaField' = st.field
              /\ terrainMods' = st.mods
              /\ heightData' = st.hd
              /\ lava' = lava
     ELSE /\ lava' = ZeroGrid
          /\ UNCHANGED <<lavaField, terrainMods, heightData>>
  /\ persistentVents' = <<>>
  /\ op' = "clearLava" /\ pre' = lava /\ arg' = <<>> /\ steps' = steps + 1 /\ calls' = <<>>
  /\ UNCHANGED <<ground, paused, holding, continuousPoint, persistentVentsEnabled, originalHeightData, config>>

(* onInjectionAmountChange, onInjectionRadiusChange, onFlowRateChange,   *)
(* onViscosityChange, onCoolingChange: handleConfigChange(key, value).   *)
OnConfigChange ==
  /\ steps < MaxHostSteps
  /\ \E key \in DOMAIN SliderValues :
       \E value \in SliderValues[key] :
         /\ config' = [config EXCEPT ![key] = value]
         /\ arg' = <<key, value>>
  /\ op' = "configChange" /\ pre' = lava /\ steps' = steps + 1 /\ calls' = <<>>
  /\ UNCHANGED <<primaryVars, paused, holding, continuousPoint, persistentVentsEnabled,
                 persistentVents, thermalVars>>

(* reload (onResolutionChange, onZoomChange): buildTerrainFromHeightmap ends    *)
(* with lavaRef.current = setupLavaSystem(...), a new LavaSystem with a new     *)
(* RealisticLavaSimulator.  The pointer handlers of the old LavaSystem stay     *)
(* attached but write to the old object, which nothing reads any more.          *)
Reload ==
  /\ steps < MaxHostSteps
  /\ lava' = ZeroGrid
  /\ paused' = FALSE
  /\ holding' = FALSE
  /\ continuousPoint' = NoPoint
  /\ persistentVentsEnabled' = TRUE
  /\ persistentVents' = <<>>
  /\ lavaField' = InitialField
  /\ terrainMods' = InitialMods(heightData)
  /\ op' = "reload" /\ pre' = lava /\ arg' = <<>> /\ steps' = steps + 1 /\ calls' = <<>>
  /\ UNCHANGED <<ground, config, heightData, originalHeightData>>

ToggleLavaSimulation ==
  /\ steps < MaxHostSteps
  /\ paused' = ~paused
  /\ op' = "toggleLavaSimulation" /\ pre' = lava /\ arg' = <<>> /\ steps' = steps + 1 /\ calls' = <<>>
  /\ UNCHANGED <<primaryVars, holding, continuousPoint, persistentVentsEnabled, persistentVents, thermalVars, config>>

TogglePersistentFlow ==
  /\ steps < MaxHostSteps
  /\ persistentVentsEnabled' = ~persistentVentsEnabled
  /\ op' = "togglePersistentFlow" /\ pre' = lava /\ arg' = <<>> /\ steps' = steps + 1 /\ calls' = <<>>
  /\ UNCHANGED <<primaryVars, paused, holding, continuousPoint, persistentVents, thermalVars, config>>

Next ==
  \/ OnDownLeft \/ OnDownRight \/ OnDoubleTap \/ OnMove \/ OnUp
  \/ Animate \/ ClearLava \/ OnConfigChange \/ Reload
  \/ ToggleLavaSimulation \/ TogglePersistentFlow

Spec == Init /\ [][Next]_vars

---------------------------------------------------------------------------
(* Properties. *)

RECURSIVE TotalUpTo(_, _)
TotalUpTo(g, k) == IF k < 0 THEN 0 ELSE g[k] + TotalUpTo(g, k - 1)

(* The sum of the quantized thickness over all cells. *)
Total(g) == TotalUpTo(g, N * N - 1)

(* C1: idle stability.  A simulateLava tick on a grid whose every cell has   *)
(* thickness 0 leaves every cell at 0, whatever dt, flowRate, cooling and    *)
(* viscosity are; with no injection in between, an all-zero grid therefore   *)
(* stays all-zero over any number of ticks.                                  *)
C1_IdleStability == (op = "tick" /\ pre = ZeroGrid) => lava = ZeroGrid

(* A second tick in a row on the all-zero grid, with a negative cooling rate. *)
C1_Witness ==
  /\ op = "tick" /\ steps = MaxTicks
  /\ pre = ZeroGrid /\ lava = ZeroGrid
  /\ arg.cooling < 0

(* C2: mass conservation without cooling or viscosity.  For every grid, ground *)
(* and mobility, a tick with cooling = 0 and viscosity = 0 never increases the *)
(* sum of the quantized thickness and lowers it by at most N * N.              *)
C2_MassConservation ==
  (op = "tick" /\ arg.cooling = 0 /\ arg.viscosity = 0)
    => (Total(lava) <= Total(pre) /\ Total(pre) - Total(lava) <= N * N)

(* C3: after the host's clearLava every cell of the primary grid has thickness *)
(* 0 and every cell of the thermal engine has thickness 0.                     *)
C3_ClearZeroesAll ==
  op = "clearLava"
    => ((\A c \in Cells : lava[c] = 0) /\ (\A c \in Cells : lavaField[c].thickness = 0))

(* C4: injection locality.  injectLavaUV(u, v, amount, radius) with amount >= 0 *)
(* leaves every cell outside the disc x*x + y*y <= R*R around the centre cell   *)
(* (floor(clamp01(u)*(N-1)), floor(clamp01(1-v)*(N-1))), R = max(2,             *)
(* floor(N*radius)), at its thickness; no cell gains more than the centre's     *)
(* addition floor(amount), and no cell gains more than the centre cell gains    *)
(* when the centre has room for its addition.                                   *)
C4_InjectionLocality ==
  (op = "inject" /\ arg.amount >= 0) =>
    LET cx == (Min(UVDen, Max(0, arg.u)) * (N - 1)) \div UVDen
        cy == (Min(UVDen, Max(0, UVDen - arg.v)) * (N - 1)) \div UVDen
        R == Max(2, (N * arg.radius) \div RadiusDen)
        centre == cy * N + cx
        add == arg.amount \div AmountDen
    IN  \A c \in Cells :
          LET x == (c % N) - cx
              y == (c \div N) - cy
          IN  /\ (x * x + y * y > R * R => lava[c] = pre[c])
              /\ lava[c] - pre[c] <= add
              /\ (pre[centre] + add <= 255 => lava[c] - pre[c] <= lava[centre] - pre[centre])

(* An injection that raises a cell of its disc while a cell outside the disc *)
(* holds lava and keeps it.                                                  *)
C4_Witness ==
  /\ op = "inject" /\ arg.amount > 0
  /\ LET cx == (Min(UVDen, Max(0, arg.u)) * (N - 1)) \div UVDen
         cy == (Min(UVDen, Max(0, UVDen - arg.v)) * (N - 1)) \div UVDen
         R == Max(2, (N * arg.radius) \div RadiusDen)
     IN  /\ \E c \in Cells :
              /\ ((c % N) - cx) * ((c % N) - cx) + ((c \div N) - cy) * ((c \div N) - cy) > R * R
              /\ pre[c] > 0 /\ lava[c] = pre[c]
         /\ \E c \in Cells : c # cy * N + cx /\ lava[c] > pre[c]
         /\ lava[cy * N + cx] > pre[cy * N + cx]

(* C5, as claimed: with mobility 0, viscosity 0 and cooling > 0, a tick with *)
(* any dt >= 0 strictly lowers every cell above 0 and keeps a cell at 0.     *)
C5_AnyDt ==
  (op = "tick" /\ arg.flowRate = 0 /\ arg.viscosity = 0 /\ arg.cooling > 0 /\ arg.dt >= 0)
    => \A c \in Cells : (pre[c] > 0 => lava[c] < pre[c]) /\ (pre[c] = 0 => lava[c] = 0)

(* C5, amended: monotonic cooling.  With mobility 0, viscosity 0 and cooling *)
(* > 0, a tick with dt > 0 whose loss cooling * min(dt, 0.1) is at least     *)
(* 1 / (CoolDen * TimeDen) = 0.00001 strictly lowers the thickness of every  *)
(* cell above 0, and a cell at 0 stays at 0.                                 *)
C5_MonotonicCooling ==
  (op = "tick" /\ arg.flowRate = 0 /\ arg.viscosity = 0 /\ arg.cooling > 0 /\ arg.dt > 0
     /\ arg.cooling * ClampStep(arg.dt) >= 1)
    => \A c \in Cells : (pre[c] > 0 => lava[c] < pre[c]) /\ (pre[c] = 0 => lava[c] = 0)

(* A second cooling tick in a row, on a grid with a cell above 0 and a cell at 0. *)
C5_Witness ==
  /\ op = "tick" /\ steps = MaxTicks
  /\ arg.flowRate = 0 /\ arg.viscosity = 0 /\ arg.cooling > 0 /\ arg.dt > 0
  /\ \E c \in Cells : pre[c] > 0 /\ lava[c] > 0
  /\ \E c \in Cells : pre[c] = 0

FlatGround == \A c \in Cells : ground[c] = ground[0]

(* C6, as claimed: on flat ground, with cooling = 0 and viscosity = 0, every *)
(* cell's thickness after the tick equals its thickness before, for any      *)
(* thickness distribution.                                                   *)
C6_AnyDistribution ==
  (op = "tick" /\ FlatGround /\ arg.cooling = 0 /\ arg.viscosity = 0) => lava = pre

(* C6, amended: flat-ground no-op.  When the ground is the same at every cell *)
(* and the thickness is the same at every cell, the transport step moves no   *)
(* fluid: with cooling = 0 and viscosity = 0 every cell's thickness after the *)
(* tick equals its thickness before.                                          *)
C6_FlatUniformNoOp ==
  (op = "tick" /\ FlatGround /\ (\A c \in Cells : pre[c] = pre[0])
     /\ arg.cooling = 0 /\ arg.viscosity = 0)
    => lava = pre

(* A tick with a positive mobility on flat ground under a uniform layer of lava. *)
C6_Witness ==
  /\ op = "tick" /\ FlatGround
  /\ \A c \in Cells : pre[c] = pre[0]
  /\ pre[0] > 0
  /\ arg.flowRate > 0 /\ arg.dt > 0 /\ arg.cooling = 0 /\ arg.viscosity = 0

(* C7: solidification is one-way.  After a simulate tick, a cell whose      *)
(* temperature dropped below 700 in that tick, and a cell that was solid    *)
(* before the tick, is solid and has velocity (0, 0): no simulate tick sets *)
(* solid from true to false.                                                *)
C7_SolidificationOneWay ==
  op = "simulate" =>
    \A c \in Cells :
      ((pre[c].temperature >= SOLIDIFICATION_TEMP /\ lavaField[c].temperature < SOLIDIFICATION_TEMP)
         \/ pre[c].solid)
        => (lavaField[c].solid /\ lavaField[c].velocity = <<0, 0>>)

(* A simulate tick in which one cell of lava drops below 700 while another, *)
(* solidified in an earlier tick, stays solid.                              *)
C7_Witness ==
  /\ op = "simulate"
  /\ \E c \in Cells :
       /\ pre[c].temperature >= SOLIDIFICATION_TEMP /\ ~pre[c].solid
       /\ lavaField[c].temperature < SOLIDIFICATION_TEMP /\ lavaField[c].solid
  /\ \E c \in Cells : pre[c].solid /\ pre[c].thickness > 0 /\ pre[c].age > 0 /\ lavaField[c].solid

(* C8: in every reachable state of the thermal engine a cell is solid exactly *)
(* when its temperature is below 700.                                         *)
C8_SolidIffCold ==
  \A c \in Cells : lavaField[c].solid <=> (lavaField[c].temperature < SOLIDIFICATION_TEMP)

(* C9: in every reachable state of the thermal engine a cell that is solid, *)
(* or whose thickness is below 0.01, has velocity (0, 0).                   *)
C9_RestVelocity ==
  \A c \in Cells :
    (lavaField[c].solid \/ lavaField[c].thickness < VelocityMinThickness)
      => lavaField[c].velocity = <<0, 0>>

(* A cell flows while another cell holds lava and is solid. *)
C9_Witness ==
  /\ \E c \in Cells : lavaField[c].velocity # <<0, 0>>
  /\ \E c \in Cells : lavaField[c].solid /\ lavaField[c].thickness > 0

RECURSIVE Replay(_, _, _, _)
(* The grid after the calls cs[k], cs[k+1], ... on the grid g. *)
Replay(g, gr, cs, k) ==
  IF k > Len(cs) THEN g
  ELSE IF cs[k][1] = "injectLavaUV"
  THEN Replay(injectLavaUV(g, cs[k][2], cs[k][3], cs[k][4], cs[k][5]), gr, cs, k + 1)
  ELSE Replay(simulateLava(FALSE, g, gr, cs[k][2], cs[k][3], cs[k][4], cs[k][5]), gr, cs, k + 1)

(* C10: an unpaused host tick calls injectLavaUV for the held pointer, if any, *)
(* then once for each vent of the registry, in registry order, with the        *)
(* configured amount and radius, when vents are enabled, and none when they    *)
(* are disabled; simulateLava is the last call, and the grid after the tick is *)
(* the grid these calls produce in this order.                                 *)
C10_VentsBeforeTransport ==
  (op = "tick" /\ ~paused) =>
    LET h == IF holding /\ continuousPoint # NoPoint THEN 1 ELSE 0
        n == IF persistentVentsEnabled THEN Len(persistentVents) ELSE 0
    IN  /\ Len(calls) = h + n + 1
        /\ calls[Len(calls)][1] = "simulateLava"
        /\ h = 1 => calls[1] = <<"injectLavaUV", continuousPoint[1], continuousPoint[2],
                                 config.injectionAmount, config.injectionRadius>>
        /\ \A k \in 1 .. n :
             calls[h + k] = <<"injectLavaUV", persistentVents[k][1], persistentVents[k][2],
                              config.injectionAmount, config.injectionRadius>>
        /\ lava = Replay(pre, ground, calls, 1)

(* The order of the calls of an unpaused host tick alone: the held-pointer  *)
(* injection, then one injection per vent in registry order when vents are  *)
(* enabled, then simulateLava, whatever amount and radius they are given.   *)
VentOrderOfTick ==
  (op = "tick" /\ ~paused) =>
    LET h == IF holding /\ continuousPoint # NoPoint THEN 1 ELSE 0
        n == IF persistentVentsEnabled THEN Len(persistentVents) ELSE 0
    IN  /\ Len(calls) = h + n + 1
        /\ calls[Len(calls)][1] = "simulateLava"
        /\ h = 1 => (calls[1][1] = "injectLavaUV"
                       /\ <<calls[1][2], calls[1][3]>> = continuousPoint)
        /\ \A k \in 1 .. n :
             calls[h + k][1] = "injectLavaUV"
               /\ <<calls[h + k][2], calls[h + k][3]>> = persistentVents[k]
        /\ lava = Replay(pre, ground, calls, 1)

(* C11: a vent, once placed, stays in the registry with the same coordinates *)
(* at the same position across every host step other than clearLava (ticks,  *)
(* injections, pause and resume, vents-enabled toggles, terrain reloads).    *)
C11_VentsPersist ==
  [][(op' # "clearLava") =>
       (/\ Len(persistentVents') >= Len(persistentVents)
        /\ \A k \in 1 .. Len(persistentVents) : persistentVents'[k] = persistentVents[k])]_vars

(* The same across every host step other than clearLava and a terrain reload. *)
VentsKeptWithoutReload ==
  [][(op' \notin {"clearLava", "reload"}) =>
       (/\ Len(persistentVents') >= Len(persistentVents)
        /\ \A k \in 1 .. Len(persistentVents) : persistentVents'[k] = persistentVents[k])]_vars

(* C12: while paused is true a host tick leaves the primary grid unchanged:  *)
(* updateLavaSimulation makes no injectLavaUV call, for the held pointer or  *)
(* for a vent, and a paused simulateLava returns the grid as it was.         *)
C12_PausedTickNoOp ==
  (op = "tick" /\ paused) =>
    /\ lava = pre
    /\ calls = <<>>
    /\ simulateLava(paused, pre, ground, arg.dt, config.flowRate, config.cooling, config.viscosity) = pre

(* A paused tick with lava on the grid, the pointer held and a vent enabled. *)
C12_Witness ==
  /\ op = "tick" /\ paused
  /\ holding /\ continuousPoint # NoPoint
  /\ persistentVentsEnabled /\ Len(persistentVents) > 0
  /\ \E c \in Cells : lava[c] > 0

(* C13: injectLavaUV with amount = 0, or with a negative radius fraction, *)
(* leaves every cell at the thickness it had.                              *)
C13_ZeroOrNegativeNoOp ==
  (op = "inject" /\ (arg.amount = 0 \/ arg.radius < 0)) => lava = pre

(* The part of C13 about amount = 0. *)
ZeroAmountNoOp ==
  (op = "inject" /\ arg.amount = 0) => lava = pre

(* C14: injectLavaUV with u or v outside [0, 1] leaves the grid that the same *)
(* call with u and v clamped to [0, 1] leaves, and writes no index outside    *)
(* the N x N grid.                                                            *)
C14_ClampedCoordinates ==
  (op = "inject" /\ (arg.u < 0 \/ arg.u > UVDen \/ arg.v < 0 \/ arg.v > UVDen)) =>
    /\ lava = injectLavaUV(pre, Min(UVDen, Max(0, arg.u)), Min(UVDen, Max(0, arg.v)),
                           arg.amount, arg.radius)
    /\ DOMAIN lava = Cells

(* An injection with u below 0 and v above 1 that raises cells of a grid that *)
(* already holds lava.                                                        *)
C14_Witness ==
  /\ op = "inject" /\ arg.u < 0 /\ arg.v > UVDen
  /\ \E c \in Cells : pre[c] > 0
  /\ \E c \in Cells : lava[c] > pre[c]

(* C15: for every amount, each cell injectLavaUV touches ends at            *)
(* clamp(old + floor(floor(amount) * weight), 0, 255); an amount >= 0 lowers *)
(* no cell and a negative amount raises no cell.                            *)
C15_ClampedNotWrapped ==
  op = "inject" =>
    LET R == InjectRadius(arg.radius)
        cx == InjectCx(arg.u)
        cy == InjectCy(arg.v)
        add == arg.amount \div AmountDen
    IN  \A c \in Cells :
          LET x == (c % N) - cx
              y == (c \div N) - cy
              w == (add * (R * R - (x * x + y * y))) \div (R * R)
          IN  /\ lava[c] \in 0 .. 255
              /\ (x * x + y * y <= R * R) => lava[c] = Max(0, Min(255, pre[c] + w))
              /\ (arg.amount >= 0) => lava[c] >= pre[c]
              /\ (arg.amount < 0) => lava[c] <= pre[c]

(* The part of C15 about amounts >= 0, amounts above 255 included. *)
ClampedForAmountsFromZero ==
  (op = "inject" /\ arg.amount >= 0) =>
    \A c \in Cells : lava[c] \in 0 .. 255 /\ lava[c] >= pre[c]

(* C16: negative rates are clamped to zero.  A tick with a negative cooling, *)
(* mobility or viscosity leaves the grid that the same tick with that rate   *)
(* set to 0 leaves.                                                          *)
C16_NegativeRatesClamped ==
  op = "tick" =>
    lava = simulateLava(paused, pre, ground, arg.dt,
                        Max(0, arg.flowRate), Max(0, arg.cooling), Max(0, arg.viscosity))

(* C17: a tick with a negative dt leaves every cell of the grid unchanged. *)
C17_NegativeDtRejected ==
  (op = "tick" /\ arg.dt < 0) => lava = pre

(* C18: the time step is clamped at 0.1.  A tick with dt >= 0.1 leaves the *)
(* grid that the tick with dt = 0.1 leaves, from the same grid, ground and *)
(* parameters.                                                             *)
C18_StepClamped ==
  (op = "tick" /\ arg.dt >= MaxStep) =>
    lava = simulateLava(paused, pre, ground, MaxStep, arg.flowRate, arg.cooling, arg.viscosity)

(* A tick with dt = 0.2 and a positive mobility that changes the grid. *)
C18_Witness ==
  /\ op = "tick" /\ arg.dt > MaxStep
  /\ arg.flowRate > 0
  /\ lava # pre

(* C19: total thickness never grows without injection.  For every mobility *)
(* in [0.05, 2.0], viscosity in [0, 0.2] and cooling in [0, 0.2] a tick     *)
(* leaves the sum of thickness over all cells at or below the sum before    *)
(* the tick, also when the diffusion pass is active.                        *)
C19_NoGrowth ==
  (op = "tick" /\ arg.flowRate \in 5 .. 200 /\ arg.viscosity \in 0 .. 200 /\ arg.cooling \in 0 .. 200)
    => Total(lava) <= Total(pre)

(* The same for the ticks whose dt is not negative. *)
NoGrowthForValidDt ==
  (op = "tick" /\ arg.dt >= 0
     /\ arg.flowRate \in 5 .. 200 /\ arg.viscosity \in 0 .. 200 /\ arg.cooling \in 0 .. 200)
    => Total(lava) <= Total(pre)

(* A tick with valid dt and rates in which the diffusion pass runs, fluid *)
(* reaches a cell and the total drops.                                    *)
NoGrowthCase ==
  /\ op = "tick" /\ arg.dt > 0
  /\ arg.flowRate \in 5 .. 200 /\ arg.viscosity \in 1 .. 200 /\ arg.cooling \in 0 .. 200
  /\ \E c \in Cells : lava[c] > pre[c]
  /\ Total(lava) < Total(pre)

(* The float field simulateLava starts from: temp[i] = lava[i] / 255. *)
TempOf(g) == [i \in Cells |-> g[i] * Sub]

(* What leaves cell i in the transport pass of the last tick. *)
MovedOf(i) ==
  Moved(TempOf(pre)[i], SlopeSum(Drops(TempOf(pre), ground)[i]), arg.flowRate, ClampStep(arg.dt))

(* The transport pass of the last tick keeps its three properties: what leaves *)
(* a cell is at most what stands in it, no output is negative, and the sums of *)
(* the input and the output field are equal up to the rounding of the shares   *)
(* (less than one unit for each of the 8 neighbours of each cell).             *)
TransportKeeps ==
  LET temp == TempOf(pre)
      out == Transport(temp, ground, arg.flowRate, ClampStep(arg.dt))
      diff == TotalUpTo(temp, N * N - 1) - TotalUpTo(out, N * N - 1)
  IN  /\ \A i \in Cells : MovedOf(i) <= temp[i]
      /\ \A i \in Cells : out[i] >= 0
      /\ diff >= -(8 * N * N) /\ diff <= 8 * N * N

(* C20: in the transport pass of simulateLava the amount leaving each cell is *)
(* at most that cell's standing value, every output value is >= 0, and the    *)
(* sum of the output field equals the sum of the input field.                 *)
C20_TransportConserves ==
  (op = "tick" /\ ~paused /\ HasActiveLava(pre)) => TransportKeeps

(* The same for the ticks whose mobility and dt are not negative. *)
TransportConservesForValidInput ==
  (op = "tick" /\ ~paused /\ HasActiveLava(pre) /\ arg.flowRate >= 0 /\ arg.dt >= 0) => TransportKeeps

(* A tick with valid mobility and dt in which a cell gives away all it holds *)
(* and another only a part.                                                  *)
TransportCase ==
  /\ op = "tick" /\ ~paused /\ arg.flowRate > 0 /\ arg.dt > 0
  /\ \E i \in Cells : TempOf(pre)[i] > 0 /\ MovedOf(i) = TempOf(pre)[i]
  /\ \E i \in Cells : MovedOf(i) > 0 /\ MovedOf(i) < TempOf(pre)[i]

(* The transport pass of the last tick, cell by cell: the surface height    *)
(* H(i) = ground[i] + temp[i], what leaves cell i, and what cell i adds to  *)
(* its neighbour at each offset k.                                          *)
LastTransport ==
  LET temp == Table(TempOf(pre))
      drops == Table(Drops(temp, ground))
      step == ClampStep(arg.dt)
  IN  [i \in Cells |->
         LET ssum == SlopeSum(drops[i])
             moved == Moved(temp[i], ssum, arg.flowRate, step)
         IN  [temp |-> temp[i],
              H |-> ground[i] + temp[i],
              moved |-> moved,
              share |-> [k \in 1 .. 8 |->
                           IF NbrAt(i, k) # -1 /\ Flows(ssum, temp[i])
                           THEN Share(moved, drops[i][k], ssum)
                           ELSE 0]]]

(* C21: transport never moves fluid uphill or sideways.  In the transport pass *)
(* a cell i adds fluid to a neighbour j only when H(j) is strictly lower than  *)
(* H(i), and a cell that is dry or has no strictly lower neighbour carries its *)
(* full value to the output: nothing leaves it.                                *)
C21_OnlyDownhill ==
  (op = "tick" /\ ~paused /\ HasActiveLava(pre)) =>
    LET t == Table(LastTransport)
    IN  \A i \in Cells :
          /\ \A k \in 1 .. 8 :
               t[i].share[k] # 0 => t[NbrAt(i, k)].H < t[i].H
          /\ (t[i].temp = 0
                \/ \A k \in 1 .. 8 : NbrAt(i, k) # -1 => t[NbrAt(i, k)].H >= t[i].H)
               => (t[i].moved = 0 /\ \A k \in 1 .. 8 : t[i].share[k] = 0)

(* A tick in which a wet cell gives to a lower neighbour while it has a higher *)
(* one, and another wet cell has no lower neighbour.                           *)
C21_Witness ==
  /\ op = "tick" /\ ~paused /\ arg.flowRate > 0 /\ arg.dt > 0
  /\ LET t == Table(LastTransport)
     IN  /\ \E i \in Cells :
              /\ \E k \in 1 .. 8 : t[i].share[k] > 0
              /\ \E k \in 1 .. 8 : NbrAt(i, k) # -1 /\ t[NbrAt(i, k)].H > t[i].H
         /\ \E i \in Cells :
              /\ t[i].temp > 0
              /\ \A k \in 1 .. 8 : NbrAt(i, k) # -1 => t[NbrAt(i, k)].H >= t[i].H

(* The transport and the diffusion pass of the last tick: the field after   *)
(* each of them.                                                            *)
LastPasses ==
  LET temp == Table(TempOf(pre))
      out == Table(Transport(temp, ground, arg.flowRate, ClampStep(arg.dt)))
  IN  [temp |-> temp, out |-> out,
       dif |-> Table(Diffuse(out, arg.viscosity, ClampStep(arg.dt)))]

(* What cell j holds after the transport pass is what it kept plus the shares *)
(* of the cells at row and column offsets of at most 1 that lie in the grid,  *)
(* found by their coordinates: nothing arrives from another row's far column. *)
TransportInGrid ==
  LET t == Table(LastTransport)
      p == LastPasses
      from(j, k) ==
        LET x == (j % N) + NbrOffsets[k][1]
            y == (j \div N) + NbrOffsets[k][2]
        IN  IF x \in 0 .. N - 1 /\ y \in 0 .. N - 1 THEN t[y * N + x].share[Opposite(k)] ELSE 0
  IN  \A j \in Cells :
        p.out[j] = (t[j].temp - t[j].moved)
                     + from(j, 1) + from(j, 2) + from(j, 3) + from(j, 4)
                     + from(j, 5) + from(j, 6) + from(j, 7) + from(j, 8)

(* The diffusion pass only moves fluid between cells of the grid: what the   *)
(* Laplacian takes from the cells is what it gives to the cells, so its sum *)
(* over the grid is 0 (fluid on a boundary cell stays or goes to an in-grid *)
(* neighbour).                                                              *)
DiffusionInGrid ==
  arg.viscosity > ViscEps =>
    LET out == LastPasses.out
    IN  TotalUpTo([i \in Cells |-> Laplacian(out, i)], N * N - 1) = 0

(* C22: edge policy.  In the transport and the diffusion pass a cell exchanges *)
(* fluid only with in-grid cells at row and column offsets of at most 1, with  *)
(* no wraparound and no reflection, and the fluid on a boundary cell either    *)
(* stays or moves to an in-grid neighbour.                                     *)
C22_EdgePolicy ==
  (op = "tick" /\ ~paused /\ HasActiveLava(pre) /\ arg.flowRate >= 0 /\ arg.dt >= 0)
    => (TransportInGrid /\ DiffusionInGrid)

(* The transport half of the edge policy, which the code keeps. *)
EdgeTransportInGrid ==
  (op = "tick" /\ ~paused /\ HasActiveLava(pre)) => TransportInGrid

(* A tick with viscosity whose transport pass left fluid on a boundary cell. *)
BoundaryDiffusionCase ==
  /\ op = "tick" /\ ~paused /\ arg.viscosity > 0 /\ arg.dt > 0 /\ arg.flowRate >= 0
  /\ \E i \in Cells : (i % N = 0 \/ i \div N = 0) /\ LastPasses.out[i] > 0

(* The state of the sweep of simulate just before its k-th interior cell. *)
RECURSIVE SweepBefore(_, _, _, _, _)
SweepBefore(k, field, mods, hd, dt) ==
  IF k = 1 THEN [field |-> field, mods |-> mods, hd |-> hd]
  ELSE SimulateCell(SweepBefore(k - 1, field, mods, hd, dt), field,
                    InteriorX(k - 1), InteriorY(k - 1), dt)

(* The steps of the sweep of a simulate(dt) tick from the given state, one per *)
(* interior cell: the surface heights (elevation + thickness) its slope is     *)
(* taken from, what the cell loses and what each of its four neighbours gains. *)
SweepSteps(field, mods, hd, dt) ==
  [k \in 1 .. Interior |->
     LET i == InteriorY(k) * N + InteriorX(k)
         st == SweepBefore(k, field, mods, hd, dt)
         nx == SimulateCell(st, field, InteriorX(k), InteriorY(k), dt)
         gain(j) == nx.field[j].thickness - st.field[j].thickness
     IN  [cell |-> i,
          before |-> st.field[i],
          after |-> nx.field[i],
          lost |-> st.field[i].thickness - nx.field[i].thickness,
          HE |-> SurfaceHeight(st.mods, field, i + 1), HW |-> SurfaceHeight(st.mods, field, i - 1),
          HS |-> SurfaceHeight(st.mods, field, i + N), HN |-> SurfaceHeight(st.mods, field, i - N),
          gainE |-> gain(i + 1), gainW |-> gain(i - 1),
          gainS |-> gain(i + N), gainN |-> gain(i - N)]]

(* C23: thermal flow is directed downhill.  Whenever a simulate tick moves     *)
(* thickness out of a cell along an axis, the neighbour that receives it is    *)
(* the one on the lower side of the central-difference slope of (elevation +   *)
(* thickness) along that axis, never the higher one.                           *)
C23_FlowDownhill ==
  [][op' = "simulate" =>
       LET s == Table(SweepSteps(lavaField, terrainMods, heightData, arg'.dt))
       IN  \A k \in 1 .. Interior :
             /\ s[k].gainE > 0 => s[k].HE < s[k].HW
             /\ s[k].gainW > 0 => s[k].HW < s[k].HE
             /\ s[k].gainS > 0 => s[k].HS < s[k].HN
             /\ s[k].gainN > 0 => s[k].HN < s[k].HS]_vars

(* What the code does instead: the receiving neighbour is always the one on  *)
(* the higher side of the slope.                                             *)
ThermalFlowUphill ==
  [][op' = "simulate" =>
       LET s == Table(SweepSteps(lavaField, terrainMods, heightData, arg'.dt))
       IN  \A k \in 1 .. Interior :
             /\ s[k].gainE > 0 => s[k].HE > s[k].HW
             /\ s[k].gainW > 0 => s[k].HW > s[k].HE
             /\ s[k].gainS > 0 => s[k].HS > s[k].HN
             /\ s[k].gainN > 0 => s[k].HN > s[k].HS]_vars

RECURSIVE ThicknessUpTo(_, _)
ThicknessUpTo(field, k) == IF k < 0 THEN 0 ELSE field[k].thickness + ThicknessUpTo(field, k - 1)

(* The sum of the thickness over all cells of a lavaField. *)
TotalThickness(field) == ThicknessUpTo(field, N * N - 1)

(* C24: thermal flux redistribution moves thickness rather than creating or   *)
(* destroying it.  In one simulate tick the thickness subtracted from a source *)
(* cell equals the total added to its receiving neighbours (up to the rounding *)
(* of the two halves), so the sum of thickness over all cells is the same      *)
(* before and after the tick, and no cell's thickness is negative.             *)
C24_FluxConserves ==
  [][op' = "simulate" =>
       LET s == Table(SweepSteps(lavaField, terrainMods, heightData, arg'.dt))
           diff == TotalThickness(lavaField) - TotalThickness(lavaField')
       IN  /\ \A k \in 1 .. Interior :
                LET gained == s[k].gainE + s[k].gainW + s[k].gainS + s[k].gainN
                IN  s[k].lost - gained \in -2 .. 2
           /\ diff \in -(2 * Interior) .. 2 * Interior
           /\ \A c \in Cells : lavaField'[c].thickness >= 0]_vars

(* The part of C24 the code keeps: no thickness is ever negative. *)
ThicknessNeverNegative == \A c \in Cells : lavaField[c].thickness >= 0

(* What the code does instead: a cell that gives loses |fluxX| + |fluxY|, and *)
(* its neighbours receive half of that at most.                               *)
HalfTheFluxArrives ==
  [][op' = "simulate" =>
       LET s == Table(SweepSteps(lavaField, terrainMods, heightData, arg'.dt))
       IN  \A k \in 1 .. Interior :
             LET gained == s[k].gainE + s[k].gainW + s[k].gainS + s[k].gainN
             IN  gained > 0 => (2 * gained <= s[k].lost /\ 2 * gained >= s[k].lost - 2)]_vars

(* The steps of the last simulate tick. *)
LastSweep == SweepSteps(pre, arg.mods, arg.hd, arg.dt)

(* DENSITY * 9.81 * thickness * |slope| of a step of the sweep, in Pa. *)
StepStress(s) == ShearStress(s.before.thickness, Magnitude(<<s.HE - s.HW, s.HS - s.HN>>))

(* C25: Bingham yield.  In a thermal simulate tick a non-solid cell whose     *)
(* shear stress (density * g * thickness * |slope|) is below the fixed yield  *)
(* strength gets velocity (0, 0) and gives no thickness to any neighbour.     *)
C25_BinghamYield ==
  op = "simulate" =>
    LET s == Table(LastSweep)
    IN  \A k \in 1 .. Interior :
          (pre[s[k].cell].thickness >= SkipThickness /\ ~s[k].after.solid
             /\ StepStress(s[k]) < YIELD_STRENGTH)
            => /\ lavaField[s[k].cell].velocity = <<0, 0>>
               /\ s[k].lost = 0
               /\ s[k].gainE = 0 /\ s[k].gainW = 0 /\ s[k].gainS = 0 /\ s[k].gainN = 0

(* A simulate tick in which a liquid cell on a slope stays below the yield *)
(* strength while another cell exceeds it and gives thickness away.        *)
C25_Witness ==
  /\ op = "simulate"
  /\ LET s == Table(LastSweep)
     IN  /\ \E k \in 1 .. Interior :
              /\ ~s[k].after.solid /\ s[k].before.thickness >= VelocityMinThickness
              /\ StepStress(s[k]) > 0 /\ StepStress(s[k]) < YIELD_STRENGTH
         /\ \E k \in 1 .. Interior :
              StepStress(s[k]) >= YIELD_STRENGTH /\ s[k].lost > 0

(* C26: thermal clear restores the original terrain.  After clear(), for every *)
(* cell elevation and baseElevation equal the values they had at construction  *)
(* and lavaThickness is 0, and heightData equals originalHeightData, whatever  *)
(* erosion and deposition the preceding injectLava and simulate calls caused.  *)
C26_ClearRestoresTerrain ==
  op = "clear" =>
    /\ \A c \in Cells :
         /\ terrainMods[c].elevation = InitialMods(originalHeightData)[c].elevation
         /\ terrainMods[c].baseElevation = InitialMods(originalHeightData)[c].baseElevation
         /\ terrainMods[c].lavaThickness = 0
    /\ heightData = originalHeightData

(* What clear() does restore: the deposit is removed, the elevation is the   *)
(* (possibly eroded) base, heightData is the original one and no cell holds  *)
(* lava.                                                                     *)
ClearRemovesDeposits ==
  op = "clear" =>
    /\ \A c \in Cells :
         /\ terrainMods[c].lavaThickness = 0
         /\ terrainMods[c].elevation = terrainMods[c].baseElevation
         /\ lavaField[c].thickness = 0
    /\ heightData = originalHeightData

(* A clear() after a tick that eroded the base of a cell. *)
ClearAfterErosion ==
  /\ op = "clear"
  /\ \E c \in Cells : terrainMods[c].baseElevation < InitialMods(originalHeightData)[c].baseElevation

AddedAt(c) ==
  LET dx == (c % N) - ThermalInjectX(arg.u)
      dy == (c \div N) - ThermalInjectY(arg.v)
  IN  IF dx * dx + dy * dy <= InjectCellRadius * InjectCellRadius
      THEN NewThickness(arg.amount, dx * dx + dy * dy)
      ELSE -1

(* C28: thermal injection resets a cell to liquid with mass-weighted mixing.  *)
(* After injectLava every in-grid cell within distance 3 of the target whose  *)
(* old plus added mass is positive has solid = false, age = 0, crust = 0,     *)
(* thickness = old thickness + added thickness, and a temperature equal to    *)
(* the mass-weighted average of its old temperature and the injected one,     *)
(* hence between the two.                                                     *)
C28_InjectionMixes ==
  op = "injectLava" =>
    \A c \in Cells :
      (AddedAt(c) >= 0 /\ pre[c].thickness + AddedAt(c) > 0) =>
        LET old == pre[c]
            new == lavaField[c]
        IN  /\ ~new.solid /\ new.age = 0 /\ new.crust = 0
            /\ new.thickness = old.thickness + AddedAt(c)
            /\ new.temperature =
                 (old.temperature * old.thickness + arg.temperature * AddedAt(c))
                   \div (old.thickness + AddedAt(c))
            /\ new.temperature >= Min(old.temperature, arg.temperature)
            /\ new.temperature <= Max(old.temperature, arg.temperature)

(* An injection onto a solid cell that holds lava of another temperature: the *)
(* cell is liquid again, with a temperature strictly between the two.         *)
C28_Witness ==
  /\ op = "injectLava"
  /\ \E c \in Cells :
       /\ pre[c].solid /\ pre[c].thickness > 0 /\ pre[c].age > 0 /\ AddedAt(c) > 0
       /\ ~lavaField[c].solid /\ lavaField[c].age = 0
       /\ lavaField[c].temperature > Min(pre[c].temperature, arg.temperature)
       /\ lavaField[c].temperature < Max(pre[c].temperature, arg.temperature)

(* C29: eventual extinction.  With cooling > 0 and dt > 0 in every tick, and *)
(* with no vent, no held pointer and no further injection, the sum of the    *)
(* quantized thickness strictly decreases on every simulateLava tick while   *)
(* any cell is above 0, for any mobility and any viscosity in [0, 0.2]; so   *)
(* the grid reaches all-zero after finitely many ticks and stays all-zero.   *)
C29_Extinction ==
  /\ [][HasActiveLava(lava) => Total(lava') < Total(lava)]_vars
  /\ <>[](lava = ZeroGrid)

(* The same for the ticks whose mobility is not negative: the sum strictly *)
(* decreases while any cell is above 0, and an all-zero grid stays so.     *)
SumDecreasesForValidMobility ==
  [][arg'.flowRate >= 0 =>
       /\ HasActiveLava(lava) => Total(lava') < Total(lava)
       /\ lava = ZeroGrid => lava' = ZeroGrid]_vars

(* Once the ticks with a negative mobility are over, the grid reaches all-zero *)
(* and stays all-zero.                                                         *)
EventuallyExtinct == <>[](lava = ZeroGrid)

(* C30: both engines apply the same coordinate convention at injection.  For *)
(* every (u, v) in [0,1]^2 and equal grid size N the thermal engine's        *)
(* injectLava centres its injection on the cell injectLavaUV centres on: the *)
(* same column and the same row, with the 1 - v flip applied in both.  The   *)
(* centre of an injection is the cell that receives the full amount.         *)
C30_SameCentre ==
  (op = "injectLava" /\ arg.u \in 0 .. UVDen /\ arg.v \in 0 .. UVDen /\ arg.amount > 0) =>
    LET c == InjectCy(arg.v) * N + InjectCx(arg.u)
    IN  /\ ThermalInjectX(arg.u) = InjectCx(arg.u)
        /\ ThermalInjectY(arg.v) = InjectCy(arg.v)
        /\ lavaField[c].thickness - pre[c].thickness = NewThickness(arg.amount, 0)

(* What the code does: the columns agree, and the thermal row is the row the *)
(* primary engine takes for 1 - v.                                           *)
ThermalRowNotFlipped ==
  (op = "injectLava" /\ arg.u \in 0 .. UVDen /\ arg.v \in 0 .. UVDen /\ arg.amount > 0) =>
    LET c == InjectCy(UVDen - arg.v) * N + InjectCx(arg.u)
    IN  /\ ThermalInjectX(arg.u) = InjectCx(arg.u)
        /\ ThermalInjectY(arg.v) = InjectCy(UVDen - arg.v)
        /\ lavaField[c].thickness - pre[c].thickness = NewThickness(arg.amount, 0)

=============================================================================
